---- MODULE Spec2Model ----
(***************************************************************************)
(* Client-side encoder of CDT operations (src/src/operations/cdt.rs) and   *)
(* the task polling exercised by src/tests/src/task.rs.                    *)
(*                                                                         *)
(* cdt.rs holds the data model (CdtArgument, CdtOperation) and the three   *)
(* methods particle_type, estimate_size and write_to.  The two size/write  *)
(* methods delegate to encoder::pack_cdt_op, which lives in another file   *)
(* of the crate: it is modelled from the specification's section 4.        *)
(* TLC's integers are 32 bits wide, so the 64-bit integer form of the wire *)
(* format is out of reach of the model.                                    *)
(***************************************************************************)
EXTENDS Integers, Sequences, FiniteSets, TLC

VARIABLES
    phase,      \* "build": the caller assembles the operation; "encode": it is frozen
    op,         \* CdtOperation.op, the opcode
    args,       \* CdtOperation.args, a sequence of CdtArgument
    ctx,        \* the context path handed to estimate_size / write_to
    hmap,       \* the HashMap<Value, Value> a Map argument borrows (iteration order)
    hlog,       \* history: the (key, value) pairs in the order the caller inserted them
    buffer,     \* the Buffer the last write_to was given, after the call
    before,     \* the bytes that Buffer held before the call
    last,       \* the last call on the operation and what it returned
    task        \* the cluster and the test program of tests/src/task.rs

vars == <<phase, op, args, ctx, hmap, hlog, buffer, before, last, task>>

(***************************************************************************)
(* Bounds of the model.                                                    *)
(***************************************************************************)
MaxArgs == 2
MaxCtx == 2
MaxDepth == 5
MaxCap == 2
MaxInserts == 3
MaxNodes == 3
MaxTimeout == 3

(***************************************************************************)
(* Stored Value (crate::Value, consumed by cdt.rs): a tagged union.        *)
(***************************************************************************)
Nil == [t |-> "nil"]
BoolV(b) == [t |-> "bool", v |-> b]
IntV(n) == [t |-> "int", v |-> n]
StrV(s) == [t |-> "str", v |-> s]
ListV(l) == [t |-> "list", v |-> l]
MapV(m) == [t |-> "map", v |-> m]

\* "hello", "x", "a", "b" as bytes
Hello == <<104, 101, 108, 108, 111>>
StrX == <<120>>
StrA == <<97>>
StrB == <<98>>

\* a value nested d lists deep around the scalar v: [v, [v, [ ... ]]]
RECURSIVE Nest(_, _)
Nest(v, d) == IF d = 0 THEN v ELSE ListV(<<v, Nest(v, d - 1)>>)

RECURSIVE Depth(_)
Depth(v) ==
    IF v.t = "list"
    THEN IF Len(v.v) = 0 THEN 1 ELSE 1 + Depth(v.v[Len(v.v)])
    ELSE 0

(***************************************************************************)
(* CdtArgument and CdtOperation.                                           *)
(***************************************************************************)
\* (Int is the set of integers in TLA+, hence the Arg prefix throughout)
ArgByte(b) == [tag |-> "Byte", x |-> b]
ArgInt(n) == [tag |-> "Int", x |-> n]
ArgBool(b) == [tag |-> "Bool", x |-> b]
ArgValue(v) == [tag |-> "Value", x |-> v]
ArgList(l) == [tag |-> "List", x |-> l]
ArgMap(m) == [tag |-> "Map", x |-> m]

CdtOperation(o, a) == [op |-> o, args |-> a]

\* CdtContext: a selector id and the value that selects the element
CdtContext(id, v) == [id |-> id, value |-> v]

(***************************************************************************)
(* Buffer and the optional sink: Option<&mut Buffer>.                      *)
(* cap = -1 is a growable buffer; cap >= 0 is a buffer that refuses a      *)
(* write that would take it past cap bytes.                                *)
(***************************************************************************)
Buffer(data, cap) == [data |-> data, cap |-> cap]
None == [present |-> FALSE]
Some(b) == [present |-> TRUE, buf |-> b]

\* the traversal's state: the sink, the bytes counted so far, and whether a
\* write failed (the ? operator returns at the first failure)
Start(sink) == [sink |-> sink, size |-> 0, ok |-> TRUE]

Write(st, bytes) ==
    IF ~st.ok THEN st
    ELSE IF ~st.sink.present THEN [st EXCEPT !.size = @ + Len(bytes)]
    ELSE IF st.sink.buf.cap >= 0 /\ Len(st.sink.buf.data) + Len(bytes) > st.sink.buf.cap
         THEN [st EXCEPT !.ok = FALSE]
         ELSE [st EXCEPT !.sink.buf.data = @ \o bytes, !.size = @ + Len(bytes)]

(***************************************************************************)
(* Integers on the wire: the smallest form that holds the value.           *)
(***************************************************************************)
Be16(n) == <<(n \div 256) % 256, n % 256>>

IntBytes(n) ==
    IF n >= 0 /\ n < 128 THEN <<n>>
    ELSE IF n < 0 /\ n >= -32 THEN <<256 + n>>
    ELSE IF n < 0 /\ n >= -128 THEN <<208, 256 + n>>
    ELSE IF n >= 128 /\ n < 256 THEN <<204, n>>
    ELSE IF n < 0 /\ n >= -32768 THEN <<209>> \o Be16(65536 + n)
    ELSE IF n >= 256 /\ n < 65536 THEN <<205>> \o Be16(n)
    ELSE IF n < 0 THEN <<210>> \o Be16(65536 + (n \div 65536)) \o Be16(n % 65536)
    ELSE <<206>> \o Be16(n \div 65536) \o Be16(n % 65536)

pack_integer(st, n) == Write(st, IntBytes(n))
pack_u8(st, b) == Write(st, <<b % 256>>)
pack_nil(st) == Write(st, <<192>>)
pack_bool(st, b) == Write(st, <<IF b THEN 195 ELSE 194>>)
pack_string(st, s) == Write(Write(Write(st, <<217>>), <<Len(s)>>), s)
pack_array_begin(st, n) == Write(st, <<220>> \o Be16(n))
pack_map_begin(st, n) == Write(st, <<222>> \o Be16(n))

RECURSIVE pack_value(_, _)
RECURSIVE pack_elements(_, _, _)
RECURSIVE pack_pairs(_, _, _)

\* each element of l from position i on, in order; a failed write ends the
\* traversal (the ? after every call)
pack_elements(st, l, i) ==
    IF i > Len(l) \/ ~st.ok THEN st ELSE pack_elements(pack_value(st, l[i]), l, i + 1)

\* each key then its value, in the order the map yields its pairs
pack_pairs(st, m, i) ==
    IF i > Len(m) \/ ~st.ok THEN st
    ELSE pack_pairs(pack_value(pack_value(st, m[i][1]), m[i][2]), m, i + 1)

pack_array(st, l) == pack_elements(pack_array_begin(st, Len(l)), l, 1)
pack_map(st, m) == pack_pairs(pack_map_begin(st, Len(m)), m, 1)

pack_value(st, v) ==
    CASE v.t = "nil" -> pack_nil(st)
      [] v.t = "bool" -> pack_bool(st, v.v)
      [] v.t = "int" -> pack_integer(st, v.v)
      [] v.t = "str" -> pack_string(st, v.v)
      [] v.t = "list" -> pack_array(st, v.v)
      [] v.t = "map" -> pack_map(st, v.v)

pack_argument(st, a) ==
    CASE a.tag = "Byte" -> pack_u8(st, a.x)
      [] a.tag = "Int" -> pack_integer(st, a.x)
      [] a.tag = "Bool" -> pack_bool(st, a.x)
      [] a.tag = "Value" -> pack_value(st, a.x)
      [] a.tag = "List" -> pack_array(st, a.x)
      [] a.tag = "Map" -> pack_map(st, a.x)

RECURSIVE pack_arguments(_, _, _)
pack_arguments(st, a, i) ==
    IF i > Len(a) \/ ~st.ok THEN st ELSE pack_arguments(pack_argument(st, a[i]), a, i + 1)

pack_descriptor(st, c) == pack_value(pack_u8(st, c.id), c.value)

RECURSIVE pack_descriptors(_, _, _)
pack_descriptors(st, c, i) ==
    IF i > Len(c) \/ ~st.ok THEN st ELSE pack_descriptors(pack_descriptor(st, c[i]), c, i + 1)

\* the header that marks a CDT operation, and the context extension marker
CDT_HEADER == 0
CTX_EXTENSION == 255

pack_context(st, c) ==
    IF Len(c) = 0 THEN st
    ELSE LET marked == pack_u8(st, CTX_EXTENSION)
             \* the length of the path is measured with the sink absent
             pathLen == pack_descriptors(Start(None), c, 1).size
             counted == pack_integer(pack_integer(marked, pathLen), Len(c))
         IN  pack_descriptors(counted, c, 1)

pack_cdt_op(sink, cdt_op, c) ==
    LET headed == pack_u8(Start(sink), CDT_HEADER)
        pathed == pack_context(headed, c)
        opped == pack_u8(pathed, cdt_op.op)
    IN  pack_arguments(opped, cdt_op.args, 1)

(***************************************************************************)
(* CdtOperation's methods.                                                 *)
(***************************************************************************)
Ok(n) == [ok |-> TRUE, size |-> n]
Err == [ok |-> FALSE, size |-> 0]
Result(st) == IF st.ok THEN Ok(st.size) ELSE Err

\* faulty variants of the methods, one slip each
particle_type_by_opcode(cdt_op) == IF cdt_op.op < 64 THEN "LIST" ELSE "BLOB"

estimate_size_without_ctx(cdt_op, c) == Result(pack_cdt_op(None, cdt_op, <<>>))

estimate_size_without_header(cdt_op, c) ==
    LET st == pack_cdt_op(None, cdt_op, c) IN Ok(st.size - 1)

write_to_without_sink(cdt_op, b, c) ==
    [result |-> Result(pack_cdt_op(None, cdt_op, c)), buffer |-> b]

write_to_without_ctx(cdt_op, b, c) ==
    LET st == pack_cdt_op(Some(b), cdt_op, <<>>)
    IN  [result |-> Result(st), buffer |-> st.sink.buf]

write_to_unwrap_or_zero(cdt_op, b, c) ==
    LET st == pack_cdt_op(Some(b), cdt_op, c)
    IN  [result |-> IF st.ok THEN Ok(st.size) ELSE Ok(0), buffer |-> st.sink.buf]

particle_type(cdt_op) == "BLOB"

estimate_size(cdt_op, c) == Result(pack_cdt_op(None, cdt_op, c))

\* what write_to returns, and the Buffer it leaves behind
write_to(cdt_op, b, c) ==
    LET st == pack_cdt_op(Some(b), cdt_op, c)
    IN  [result |-> Result(st), buffer |-> st.sink.buf]

(***************************************************************************)
(* The inputs the caller draws from.                                       *)
(***************************************************************************)
Opcodes == {6, 77}

\* one argument per tag, with the values of the specification's round-trip
\* list; the values nest 0 (scalars), 1 (an element of the list) and
\* MaxDepth (the single value) lists deep
ArgChoices ==
    { ArgByte(7), ArgInt(-12345), ArgBool(TRUE),
      ArgValue(Nest(StrV(Hello), MaxDepth)),
      ArgList(<<IntV(1), Nest(IntV(200), 1), IntV(3)>>),
      ArgMap(<<<<StrV(StrA), Nil>>>>) }

\* by-index(2) and by-key("x")
CtxChoices == { CdtContext(16, IntV(2)), CdtContext(34, StrV(StrX)) }

\* the Buffers a caller hands to write_to: a growable one that already
\* holds a byte, and empty ones that refuse to grow past cap bytes
Buffers == { Buffer(<<170>>, -1) } \cup { Buffer(<<>>, c) : c \in 0..MaxCap }

MapKeys == { StrV(StrA), StrV(StrB) }
MapValues == { IntV(1), IntV(2) }

NoCall == [call |-> "none"]
NoTask == [pc |-> "off"]

EncoderInit ==
    /\ phase = "build"
    /\ op \in Opcodes
    /\ args = <<>>
    /\ ctx = <<>>
    /\ hmap = <<>>
    /\ hlog = <<>>
    /\ buffer = Buffer(<<>>, -1)
    /\ before = <<>>
    /\ last = NoCall

Init == EncoderInit /\ task = NoTask

(***************************************************************************)
(* The caller builds the operation and the context path ...                *)
(***************************************************************************)
PushArg(a) ==
    /\ phase = "build"
    /\ Len(args) < MaxArgs
    /\ args' = Append(args, a)
    /\ UNCHANGED <<phase, op, ctx, hmap, hlog, buffer, before, last, task>>

PushCtx(c) ==
    /\ phase = "build"
    /\ Len(ctx) < MaxCtx
    /\ ctx' = Append(ctx, c)
    /\ UNCHANGED <<phase, op, args, hmap, hlog, buffer, before, last, task>>

(***************************************************************************)
(* ... and calls the three methods, in any order and any number of times.  *)
(***************************************************************************)
EstimateSize ==
    /\ phase' = "encode"
    /\ last' = [call |-> "estimate_size", result |-> estimate_size(CdtOperation(op, args), ctx)]
    /\ UNCHANGED <<op, args, ctx, hmap, hlog, buffer, before, task>>

WriteTo(b) ==
    LET r == write_to(CdtOperation(op, args), b, ctx)
    IN  /\ phase' = "encode"
        /\ before' = b.data
        /\ buffer' = r.buffer
        /\ last' = [call |-> "write_to", result |-> r.result]
        /\ UNCHANGED <<op, args, ctx, hmap, hlog, task>>

ParticleType ==
    /\ phase' = "encode"
    /\ last' = [call |-> "particle_type", result |-> particle_type(CdtOperation(op, args))]
    /\ UNCHANGED <<op, args, ctx, hmap, hlog, buffer, before, task>>

Next ==
    \/ \E a \in ArgChoices : PushArg(a)
    \/ \E c \in CtxChoices : PushCtx(c)
    \/ EstimateSize
    \/ \E b \in Buffers : WriteTo(b)
    \/ ParticleType

Spec == Init /\ [][Next]_vars


(***************************************************************************)
(* A Map argument borrows a HashMap<Value, Value> that the caller filled.  *)
(* The table is the sequence of its (key, value) pairs in the order its    *)
(* iterator yields them.  insert replaces the value of a key the table     *)
(* holds, where it is; a new key may land anywhere and may move the other  *)
(* pairs (the hash is seeded at random and the table is rehashed when it   *)
(* grows), so every order of the pairs is a possible outcome.              *)
(***************************************************************************)
Orders(S) ==
    { p \in [1..Cardinality(S) -> S] : \A i, j \in 1..Cardinality(S) : p[i] = p[j] => i = j }

KeyIndex(m, k) == { i \in 1..Len(m) : m[i][1] = k }

\* an insert into a vector of pairs instead: it keeps the order of the
\* inserts and keeps a key twice
VecPush(m, k, v) == { Append(m, <<k, v>>) }

\* the tables insert(k, v) may leave behind
HashMapInsert(m, k, v) ==
    IF KeyIndex(m, k) # {}
    THEN { [i \in 1..Len(m) |-> IF m[i][1] = k THEN <<k, v>> ELSE m[i]] }
    ELSE Orders({ m[i] : i \in 1..Len(m) } \cup { <<k, v>> })

Insert(k, v) ==
    /\ phase = "build"
    /\ args = <<>>
    /\ Len(hlog) < MaxInserts
    /\ hlog' = Append(hlog, <<k, v>>)
    /\ hmap' \in HashMapInsert(hmap, k, v)
    /\ UNCHANGED <<phase, op, args, ctx, buffer, before, last, task>>

\* CdtArgument::Map(&hmap): from here on the table is borrowed
PushMap ==
    /\ phase = "build"
    /\ args = <<>>
    /\ args' = <<ArgMap(hmap)>>
    /\ UNCHANGED <<phase, op, ctx, hmap, hlog, buffer, before, last, task>>

MapNext ==
    \/ \E k \in MapKeys, v \in MapValues : Insert(k, v)
    \/ PushMap
    \/ EstimateSize
    \/ \E b \in Buffers : WriteTo(b)
    \/ ParticleType

MapSpec == Init /\ [][MapNext]_vars

(***************************************************************************)
(* tests/src/task.rs: register_task_test and index_task_test against a     *)
(* cluster of MaxNodes nodes.  The task module lives in another file of    *)
(* the crate; what is modelled is the contract the tests state:            *)
(* a task is Complete once every node holds the UDF / has built the index, *)
(* and wait_till_complete polls that status until it is Complete or, with  *)
(* a timeout, until the timeout has elapsed.                               *)
(***************************************************************************)
Nodes == 1..MaxNodes

\* a status query that asks one node too many, and one that answers from
\* the result of the earlier wait
query_status_extra_node(t) ==
    IF \A n \in 0..MaxNodes : n \in Nodes /\ t.has[n] THEN "Complete" ELSE "InProgress"

query_status_remembered(t) ==
    IF t.first = "Complete" \/ \A n \in Nodes : t.has[n] THEN "Complete" ELSE "InProgress"

\* RegisterTask / IndexTask: the work is complete when every node has it
query_status(t) ==
    IF \A n \in Nodes : t.has[n] THEN "Complete" ELSE "InProgress"

TaskInit ==
    /\ EncoderInit
    /\ op = 6
    /\ task \in { [kind |-> k, pc |-> "start", has |-> [n \in Nodes |-> FALSE],
                   first |-> "pending", second |-> "pending",
                   deadline |-> 0, elapsed |-> 0] : k \in {"udf", "index"} }

EncoderIdle == UNCHANGED <<phase, op, args, ctx, hmap, hlog, buffer, before, last>>

\* client.register_udf(..).unwrap()
RegisterUdf ==
    /\ task.kind = "udf" /\ task.pc = "start"
    /\ task' = [task EXCEPT !.pc = "wait_none"]
    /\ EncoderIdle

\* client.create_index(..).unwrap()
CreateIndex ==
    /\ task.kind = "index" /\ task.pc = "start"
    /\ task' = [task EXCEPT !.pc = "wait_none"]
    /\ EncoderIdle

Removed == task.pc \in {"sleep", "wait_some", "done"}

\* a node installs the UDF / finishes building the index
NodeApply(n) ==
    /\ task.pc # "start" /\ ~Removed
    /\ ~task.has[n]
    /\ task' = [task EXCEPT !.has[n] = TRUE]
    /\ EncoderIdle

\* a node unregisters the removed UDF
NodeDrop(n) ==
    /\ Removed
    /\ task.has[n]
    /\ task' = [task EXCEPT !.has[n] = FALSE]
    /\ EncoderIdle

\* one round of wait_till_complete(None)
PollNone ==
    /\ task.pc = "wait_none"
    /\ task' = IF query_status(task) = "Complete"
               THEN [task EXCEPT !.pc = "waited", !.first = "Complete"]
               ELSE task
    /\ EncoderIdle

\* client.remove_udf(..).unwrap()
RemoveUdf ==
    /\ task.kind = "udf" /\ task.pc = "waited"
    /\ task' = [task EXCEPT !.pc = "sleep"]
    /\ EncoderIdle

\* thread::sleep, then wait_till_complete(Some(timeout)) starts
WaitSome(timeout) ==
    /\ task.pc = "sleep"
    /\ task' = [task EXCEPT !.pc = "wait_some", !.deadline = timeout, !.elapsed = 0]
    /\ EncoderIdle

\* one round of wait_till_complete(Some(timeout)): sleep, query, check the clock
PollSome ==
    /\ task.pc = "wait_some"
    /\ task' = IF query_status(task) = "Complete"
               THEN [task EXCEPT !.pc = "done", !.second = "Complete"]
               ELSE IF task.elapsed + 1 >= task.deadline
               THEN [task EXCEPT !.pc = "done", !.second = "Timeout", !.elapsed = @ + 1]
               ELSE [task EXCEPT !.elapsed = @ + 1]
    /\ EncoderIdle

TaskNext ==
    \/ RegisterUdf
    \/ CreateIndex
    \/ \E n \in Nodes : NodeApply(n)
    \/ \E n \in Nodes : NodeDrop(n)
    \/ PollNone
    \/ RemoveUdf
    \/ \E t \in 1..MaxTimeout : WaitSome(t)
    \/ PollSome

TaskSpec == TaskInit /\ [][TaskNext]_vars

\* the server nodes finish the work they were given, and a waiting client
\* keeps polling
FairTaskSpec ==
    /\ TaskSpec
    /\ \A n \in Nodes : WF_vars(NodeApply(n)) /\ WF_vars(NodeDrop(n))
    /\ WF_vars(PollNone)
    /\ WF_vars(PollSome)

(***************************************************************************)
(* Vocabulary of the properties.                                           *)
(***************************************************************************)
Growable == Buffer(<<>>, -1)
ValueBytes(v) == pack_value(Start(Some(Growable)), v).sink.buf.data
ArgBytes(a) == pack_argument(Start(Some(Growable)), a).sink.buf.data
DescBytes(c) == <<c.id>> \o ValueBytes(c.value)

\* the bytes of the items 1..n of a sequence of arguments / descriptors
RECURSIVE ArgsBytes(_, _)
ArgsBytes(a, n) == IF n = 0 THEN <<>> ELSE ArgsBytes(a, n - 1) \o ArgBytes(a[n])
RECURSIVE DescsBytes(_, _)
DescsBytes(c, n) == IF n = 0 THEN <<>> ELSE DescsBytes(c, n - 1) \o DescBytes(c[n])

TheOp == CdtOperation(op, args)
Wrote == last.call = "write_to" /\ last.result.ok
Measured == last.call = "estimate_size"
\* what the last write_to appended
Appended == SubSeq(buffer.data, Len(before) + 1, Len(buffer.data))
Slice(s, off, bytes) ==
    /\ off + Len(bytes) <= Len(s)
    /\ SubSeq(s, off + 1, off + Len(bytes)) = bytes

\* the bytes before the first descriptor: header, marker, path length, count
CtxPrefixLen ==
    IF Len(ctx) = 0 THEN 1
    ELSE 2 + Len(IntBytes(Len(DescsBytes(ctx, Len(ctx))))) + Len(IntBytes(Len(ctx)))
\* where the opcode sits
OpOffset == CtxPrefixLen + Len(DescsBytes(ctx, Len(ctx)))

(***************************************************************************)
(* C1: estimate_size(ctx) returns exactly the number of bytes that         *)
(* write_to(buffer, ctx) appends to the buffer and returns.                *)
(***************************************************************************)
MeasureEqualsWrite ==
    /\ Wrote =>
        /\ Len(buffer.data) = Len(before) + last.result.size
        /\ SubSeq(buffer.data, 1, Len(before)) = before
        /\ estimate_size(TheOp, ctx) = Ok(last.result.size)
    /\ Measured =>
        /\ last.result.ok
        /\ LET w == write_to(TheOp, Growable, ctx)
           IN  w.result = last.result /\ Len(w.buffer.data) = last.result.size

MeasureEqualsWriteWitness ==
    /\ Wrote
    /\ Len(before) = 1
    /\ Len(ctx) = 2
    /\ Len(args) = 2
    /\ args[1].tag = "Value" /\ Depth(args[1].x) = MaxDepth
    /\ args[2].tag = "Map"

(***************************************************************************)
(* C3: with a non-empty context path the descriptors are written in path   *)
(* order, each as (selector opcode, encoded selector value), all of them   *)
(* before the operation's opcode, and each one for itself.                 *)
(***************************************************************************)
ContextPathOrder ==
    (Wrote /\ Len(ctx) > 0) =>
        /\ Appended[1] = CDT_HEADER /\ Appended[2] = CTX_EXTENSION
        /\ \A i \in 1..Len(ctx) :
              Slice(Appended, CtxPrefixLen + Len(DescsBytes(ctx, i - 1)),
                    <<ctx[i].id>> \o ValueBytes(ctx[i].value))
        /\ Slice(Appended, OpOffset, <<op>>)

ContextPathOrderWitness ==
    /\ Wrote
    /\ ctx = <<CdtContext(16, IntV(2)), CdtContext(34, StrV(StrX))>>

\* the same selector kind twice
ContextPathRepeatWitness ==
    /\ Wrote
    /\ ctx = <<CdtContext(16, IntV(2)), CdtContext(16, IntV(2))>>

(***************************************************************************)
(* C4: with an empty context path nothing of the context extension is      *)
(* written or counted: the bytes are header, opcode and arguments.         *)
(***************************************************************************)
EmptyContextOmitsExtension ==
    Len(ctx) = 0 =>
        /\ Wrote => Appended = <<CDT_HEADER, op>> \o ArgsBytes(args, Len(args))
        /\ Measured => last.result = Ok(2 + Len(ArgsBytes(args, Len(args))))

EmptyContextWitness ==
    /\ Wrote
    /\ Len(ctx) = 0
    /\ Len(args) = 2

(***************************************************************************)
(* C5: the encoding holds one item per element of args, in the order of    *)
(* args and after the opcode, also when two arguments are equal.           *)
(***************************************************************************)
ArgumentOrder ==
    Wrote =>
        /\ Len(Appended) = OpOffset + 1 + Len(ArgsBytes(args, Len(args)))
        /\ Slice(Appended, OpOffset, <<op>>)
        /\ \A i \in 1..Len(args) :
              Slice(Appended, OpOffset + 1 + Len(ArgsBytes(args, i - 1)), ArgBytes(args[i]))

ArgumentOrderWitness ==
    /\ Wrote
    /\ Len(args) = 2
    /\ args[1] = args[2]
    /\ Len(ctx) = 1

(***************************************************************************)
(* C6: an operation without arguments and with an empty context path       *)
(* encodes to the header and the opcode only, and estimate_size returns    *)
(* that length.                                                            *)
(***************************************************************************)
EmptyArgumentOperation ==
    (Len(args) = 0 /\ Len(ctx) = 0) =>
        /\ Wrote => Appended = <<CDT_HEADER, op>>
        /\ Measured => last.result = Ok(2)
        /\ last.call = "write_to" => (last.result.ok <=> (buffer.cap < 0 \/ buffer.cap >= 2))

EmptyArgumentWitness ==
    /\ Measured
    /\ Len(args) = 0
    /\ Len(ctx) = 0
    /\ op = 77

(***************************************************************************)
(* C7: estimate_size never fails; write_to fails exactly when the Buffer   *)
(* refuses a write, and then the failure is what the caller gets, with     *)
(* nothing written after it.                                               *)
(***************************************************************************)
BufferRefuses ==
    /\ buffer.cap >= 0
    /\ Len(before) + Len(write_to(TheOp, Growable, ctx).buffer.data) > buffer.cap

OnlyBufferFails ==
    /\ Measured => last.result.ok
    /\ last.call = "write_to" =>
        /\ ~last.result.ok <=> BufferRefuses
        /\ ~last.result.ok =>
            /\ last.result = Err
            /\ Len(buffer.data) <= buffer.cap
            /\ Slice(before \o write_to(TheOp, Growable, ctx).buffer.data, 0, buffer.data)

OnlyBufferFailsWitness ==
    /\ last.call = "write_to"
    /\ ~last.result.ok
    /\ Len(buffer.data) > 0
    /\ Len(args) = 2

(***************************************************************************)
(* C8: particle_type is BLOB for every operation, before and after the     *)
(* other calls.                                                            *)
(***************************************************************************)
ParticleTypeIsBlob ==
    /\ particle_type(TheOp) = "BLOB"
    /\ last.call = "particle_type" => last.result = "BLOB"

\* a particle_type call after a write_to (the Buffer still holds its bytes)
ParticleTypeWitness ==
    /\ last.call = "particle_type"
    /\ Len(buffer.data) > 1
    /\ op = 6
    /\ Len(args) = 1

(***************************************************************************)
(* C2, as stated: a map argument puts its pairs on the wire in the order   *)
(* the caller inserted them, without reordering and without dropping a     *)
(* repeated key.                                                           *)
(***************************************************************************)
RECURSIVE PairsBytes(_, _)
PairsBytes(m, n) ==
    IF n = 0 THEN <<>>
    ELSE PairsBytes(m, n - 1) \o ValueBytes(m[n][1]) \o ValueBytes(m[n][2])

MapOnWire(pairs) == <<CDT_HEADER, op, 222>> \o Be16(Len(pairs)) \o PairsBytes(pairs, Len(pairs))

WroteMap == Wrote /\ args = <<ArgMap(hmap)>>

InsertionOrderOnWire == WroteMap => Appended = MapOnWire(hlog)

(***************************************************************************)
(* C2, amended: a map argument puts one pair on the wire per distinct key  *)
(* inserted, the key followed by the value inserted for it last, in the    *)
(* order the HashMap yields its pairs.                                     *)
(***************************************************************************)
LastInsert(k) ==
    hlog[CHOOSE i \in 1..Len(hlog) :
            hlog[i][1] = k /\ \A j \in (i + 1)..Len(hlog) : hlog[j][1] # k][2]

MapPairsOnWire ==
    /\ \A i, j \in 1..Len(hmap) : hmap[i][1] = hmap[j][1] => i = j
    /\ { hmap[i][1] : i \in 1..Len(hmap) } = { hlog[i][1] : i \in 1..Len(hlog) }
    /\ \A i \in 1..Len(hmap) : hmap[i][2] = LastInsert(hmap[i][1])
    /\ WroteMap => Appended = MapOnWire(hmap)

\* written after b, a, b were inserted: a comes first and b is there once
MapPairsOnWireWitness ==
    /\ WroteMap
    /\ Len(hlog) = 3
    /\ hlog[1][1] = StrV(StrB) /\ hlog[2][1] = StrV(StrA) /\ hlog[3][1] = StrV(StrB)
    /\ hmap[1][1] = StrV(StrA)

AllGone == \A n \in Nodes : ~task.has[n]

====
